---- MODULE Spec2Model ----
(***************************************************************************)
(* The utilisation dashboard's row projection.  Two implementations of the *)
(* same projection exist: src/src/table-script.tsx (map, then filter the   *)
(* nulls) and src/unnamed/part_000 (filter(isValidRow), then map, then     *)
(* filter the nulls).  Definitions that model table-script.tsx carry the   *)
(* suffix A, those that model part_000 the suffix B; helpers whose text is *)
(* the same in both files are modelled once.                               *)
(*                                                                         *)
(* JavaScript values.  An optional value (a property that may be missing,  *)
(* an array entry that may be null) is a sequence of length 0 or 1: None   *)
(* or Some(v).  Names, statuses and month names are strings.  A string     *)
(* that the code hands to parseFloat is a sequence of one-character        *)
(* strings, so that parsing is computed character by character.            *)
(***************************************************************************)
EXTENDS Integers, Sequences, FiniteSets, TLC

VARIABLES
    now,          \* the wall clock read by new Date(): [year, month (0..11), date]
    tieUp,        \* how binary floating point resolves a decimal tie in toFixed
    sourceData,   \* the records of source-data.json
    pcA,          \* table-script.tsx: position in the chain .map().filter()
    mappedA,      \* table-script.tsx: the array .map() returned
    tableDataA,   \* table-script.tsx: tableData
    pcB,          \* part_000: position in the chain .filter().map().filter()
    filteredB,    \* part_000: the array .filter(isValidRow) returned
    mappedB,      \* part_000: the array .map() returned
    tableDataB,   \* part_000: tableData
    value,        \* the argument of a single parseRate call
    out,          \* the string a single call returned
    pcF           \* position of a single call: "call" or "done"

vars == <<now, tieUp, sourceData, pcA, mappedA, tableDataA,
          pcB, filteredB, mappedB, tableDataB, value, out, pcF>>

---------------------------------------------------------------------------
(* Bounds *)

MaxLen == 5
YearSpan == 3
MaxRecords == 2

---------------------------------------------------------------------------
(* Optional values *)

None == <<>>
Some(v) == <<v>>
IsSome(o) == o # <<>>
Get(o) == o[1]

---------------------------------------------------------------------------
(* Numbers.  A number is NaN or a signed decimal mant / 10^scale. *)

Digits == {"0", "1", "2", "3", "4", "5", "6", "7", "8", "9"}

DigitVal(c) ==
    CASE c = "0" -> 0 [] c = "1" -> 1 [] c = "2" -> 2 [] c = "3" -> 3
      [] c = "4" -> 4 [] c = "5" -> 5 [] c = "6" -> 6 [] c = "7" -> 7
      [] c = "8" -> 8 [] c = "9" -> 9

RECURSIVE Pow10(_)
Pow10(n) == IF n = 0 THEN 1 ELSE 10 * Pow10(n - 1)

NaN == [nan |-> TRUE, neg |-> FALSE, mant |-> 0, scale |-> 0]
Num(neg, mant, scale) == [nan |-> FALSE, neg |-> neg, mant |-> mant, scale |-> scale]

RECURSIVE TrimStart(_)
TrimStart(cs) ==
    IF cs # <<>> /\ Head(cs) = " " THEN TrimStart(Tail(cs)) ELSE cs

RECURSIVE TakeDigits(_)
TakeDigits(cs) ==
    IF cs # <<>> /\ Head(cs) \in Digits
    THEN <<Head(cs)>> \o TakeDigits(Tail(cs))
    ELSE <<>>

RECURSIVE DigitsVal(_)
DigitsVal(ds) ==
    IF ds = <<>> THEN 0
    ELSE 10 * DigitsVal(SubSeq(ds, 1, Len(ds) - 1)) + DigitVal(ds[Len(ds)])

\* parseFloat: leading white space is skipped, then the longest prefix that is
\* a decimal literal (sign, digits, ".", digits) is the value; no such prefix
\* gives NaN.  Exponents and "Infinity" need letters the inputs do not hold.
parseFloat(cs) ==
    LET s0 == TrimStart(cs)
        signed == s0 # <<>> /\ Head(s0) \in {"-", "+"}
        s1 == IF signed THEN Tail(s0) ELSE s0
        ip == TakeDigits(s1)
        s2 == SubSeq(s1, Len(ip) + 1, Len(s1))
        fp == IF s2 # <<>> /\ Head(s2) = "." THEN TakeDigits(Tail(s2)) ELSE <<>>
    IN  IF ip = <<>> /\ fp = <<>>
        THEN NaN
        ELSE Num(signed /\ Head(s0) = "-", DigitsVal(ip \o fp), Len(fp))

Times(x, k) == IF x.nan THEN NaN ELSE Num(x.neg, x.mant * k, x.scale)

\* The decimal digits of n, padded on the left with "0" to at least w digits.
RECURSIVE PadDigits(_, _)
PadDigits(n, w) ==
    IF n < 10 /\ w <= 1 THEN ToString(n)
    ELSE PadDigits(n \div 10, w - 1) \o ToString(n % 10)

\* Number.prototype.toFixed(f): the integer n with n / 10^f nearest to x, the
\* larger n on a tie.  The exact product of a decimal tie is not a double: the
\* double the multiplication produced lies on one side of it or on it (".0005"
\* prints "0.1%", ".8935" prints "89.3%"); which, is the parameter up.
toFixed(x, f, up) ==
    IF x.nan THEN "NaN"
    ELSE LET num == x.mant * Pow10(f)
             den == Pow10(x.scale)
             q == num \div den
             r == num % den
             n == IF 2 * r > den \/ (2 * r = den /\ up) THEN q + 1 ELSE q
             body == IF f = 0 THEN ToString(n)
                     ELSE ToString(n \div Pow10(f)) \o "." \o PadDigits(n % Pow10(f), f)
         IN  (IF x.neg /\ x.mant > 0 THEN "-" ELSE "") \o body

\* Number::toString as a template literal applies it: NaN, or the shortest
\* decimal, without trailing zeros of the fraction.
RECURSIVE Strip(_)
Strip(x) ==
    IF x.scale > 0 /\ x.mant % 10 = 0
    THEN Strip(Num(x.neg, x.mant \div 10, x.scale - 1))
    ELSE x

NumberToString(x) ==
    IF x.nan THEN "NaN"
    ELSE IF x.mant = 0 THEN "0"
    ELSE LET s == Strip(x)
             ip == s.mant \div Pow10(s.scale)
             fr == s.mant % Pow10(s.scale)
         IN  (IF s.neg THEN "-" ELSE "") \o ToString(ip)
             \o (IF s.scale = 0 THEN "" ELSE "." \o PadDigits(fr, s.scale))

\* The characters of a string, joined.
RECURSIVE Str(_)
Str(cs) == IF cs = <<>> THEN "" ELSE Head(cs) \o Str(Tail(cs))

---------------------------------------------------------------------------
(* parseRate: the same text in both files *)

\* parseRate without the multiplication by 100
parseRate_NoScale(v, up) ==
    IF IsSome(v) /\ Get(v) # <<>>
    THEN toFixed(parseFloat(Get(v)), 1, up) \o "%"
    ELSE "0%"

\* value ? `${(parseFloat(value) * 100).toFixed(1)}%` : "0%"
parseRate(v, up) ==
    IF IsSome(v) /\ Get(v) # <<>>
    THEN toFixed(Times(parseFloat(Get(v)), 100), 1, up) \o "%"
    ELSE "0%"

---------------------------------------------------------------------------
(* Dates: new Date(year, month, date) with month and date out of range *)

IsLeap(y) == (y % 4 = 0 /\ y % 100 # 0) \/ y % 400 = 0

DaysInMonth(y, m) ==
    IF m = 1 THEN (IF IsLeap(y) THEN 29 ELSE 28)
    ELSE IF m \in {3, 5, 8, 10} THEN 30 ELSE 31

RECURSIVE MakeDate(_, _, _)
MakeDate(y, m, d) ==
    LET ym == y * 12 + m
        y1 == ym \div 12
        m1 == ym % 12
    IN  IF d > DaysInMonth(y1, m1) THEN MakeDate(y1, m1 + 1, d - DaysInMonth(y1, m1))
        ELSE IF d < 1
             THEN MakeDate(y1, m1 - 1,
                           d + DaysInMonth((ym - 1) \div 12, (ym - 1) % 12))
             ELSE [year |-> y1, month |-> m1, date |-> d]

RECURSIVE padStart(_, _, _)
padStart(s, len, fill) ==
    IF Len(s) >= len THEN s ELSE padStart(fill \o s, len, fill)

\* getPrevMonthKey with the day of now kept in place of day 1
getPrevMonthKey_KeepsDate(n) ==
    LET prev == MakeDate(n.year, n.month - 1, n.date)
    IN  ToString(prev.year) \o "-" \o padStart(ToString(prev.month + 1), 2, "0")

getPrevMonthKey(n) ==
    LET prev == MakeDate(n.year, n.month - 1, 1)
    IN  ToString(prev.year) \o "-" \o padStart(ToString(prev.month + 1), 2, "0")

---------------------------------------------------------------------------
(* Source records.  A record is [employees, externals], each an optional   *)
(* person object; a person object is a record of optional properties       *)
(* [firstname, lastname, status, statusAggregation, workforceUtilisation,  *)
(* costsByMonth]: a JSON object may carry any of them.                     *)

Results(threw, val) == [threw |-> threw, val |-> val]

\* Array.prototype.find with the callback (m) => m.month === k: the first
\* entry whose month is k.  Reading .month of a null entry is a TypeError.
RECURSIVE FindByMonth(_, _)
FindByMonth(arr, k) ==
    IF arr = <<>> THEN Results(FALSE, None)
    ELSE IF Head(arr) = None THEN Results(TRUE, None)
    ELSE IF Get(Head(arr)).month = Some(k) THEN Results(FALSE, Head(arr))
    ELSE FindByMonth(Tail(arr), k)

\* dataRow.employees?.costsByMonth?.potentialEarningsByMonth ?? []
earningsArrOf(person) ==
    IF IsSome(person) /\ IsSome(Get(person).costsByMonth)
       /\ IsSome(Get(Get(person).costsByMonth).potentialEarningsByMonth)
    THEN Get(Get(Get(person).costsByMonth).potentialEarningsByMonth)
    ELSE <<>>

ZeroText == <<"0">>

\* getNetEarningsPrevMonth reading the earnings of whichever variant is present
getNetEarningsPrevMonth_AnyVariant(dataRow, n) ==
    LET prevMonthKey == getPrevMonthKey(n)
        earningsArr == earningsArrOf(IF IsSome(dataRow.employees)
                                     THEN dataRow.employees ELSE dataRow.externals)
        found == FindByMonth(earningsArr, prevMonthKey)
        costs == IF IsSome(found.val) /\ IsSome(Get(found.val).costs)
                 THEN Get(Get(found.val).costs) ELSE ZeroText
    IN  IF found.threw THEN Results(TRUE, "")
        ELSE Results(FALSE, NumberToString(parseFloat(costs)) \o " €")

getNetEarningsPrevMonth(dataRow, n) ==
    LET prevMonthKey == getPrevMonthKey(n)
        earningsArr == earningsArrOf(dataRow.employees)
        found == FindByMonth(earningsArr, prevMonthKey)
        costs == IF IsSome(found.val) /\ IsSome(Get(found.val).costs)
                 THEN Get(Get(found.val).costs) ELSE ZeroText
    IN  IF found.threw THEN Results(TRUE, "")
        ELSE Results(FALSE, NumberToString(parseFloat(costs)) \o " €")

\* `${x}` of an optional string: a missing property prints "undefined".
Template(o) == IF IsSome(o) THEN Get(o) ELSE "undefined"

\* a truthy optional string: present and not empty
Truthy(o) == IsSome(o) /\ Get(o) # ""

\* person.statusAggregation?.status
aggregationStatus(p) ==
    IF IsSome(p.statusAggregation) THEN Get(p.statusAggregation).status ELSE None

\* util?.lastThreeMonthsIndividually ?? []
lastThreeMonthsOf(util) ==
    IF IsSome(util) /\ IsSome(Get(util).lastThreeMonthsIndividually)
    THEN Get(Get(util).lastThreeMonthsIndividually)
    ELSE <<>>

\* parseRate(lastThreeMonths.find((m) => m.month === month)?.utilisationRate)
getMonthRate(util, month, up) ==
    LET found == FindByMonth(lastThreeMonthsOf(util), month)
    IN  IF found.threw THEN Results(TRUE, "")
        ELSE Results(FALSE,
                 parseRate(IF IsSome(found.val) THEN Get(found.val).utilisationRate
                           ELSE None, up))

\* The row object literal, its properties evaluated in order; an exception in
\* one of them leaves the callback.
rowOf(dataRow, person, n, up) ==
    LET util == person.workforceUtilisation
        may == getMonthRate(util, "May", up)
        june == getMonthRate(util, "June", up)
        july == getMonthRate(util, "July", up)
        net == getNetEarningsPrevMonth(dataRow, n)
    IN  IF may.threw \/ june.threw \/ july.threw \/ net.threw
        THEN Results(TRUE, None)
        ELSE Results(FALSE, Some(
               [person |-> Template(person.firstname) \o " " \o Template(person.lastname),
                past12Months |-> parseRate(IF IsSome(util)
                                           THEN Get(util).utilisationRateLastTwelveMonths
                                           ELSE None, up),
                y2d |-> parseRate(IF IsSome(util)
                                  THEN Get(util).utilisationRateYearToDate
                                  ELSE None, up),
                may |-> may.val, june |-> june.val, july |-> july.val,
                netEarningsPrevMonth |-> net.val]))

---------------------------------------------------------------------------
(* table-script.tsx *)

\* the callback of .map()
mapCallbackA(dataRow, n, up) ==
    LET isEmployee == IsSome(dataRow.employees)
        isExternal == IsSome(dataRow.externals)
    IN  IF isEmployee /\ aggregationStatus(Get(dataRow.employees)) = Some("Inaktiv")
        THEN Results(FALSE, None)
        ELSE IF ~isEmployee /\ isExternal /\ Get(dataRow.externals).status # Some("active")
        THEN Results(FALSE, None)
        ELSE IF ~isEmployee /\ ~isExternal
        THEN Results(FALSE, None)
        ELSE rowOf(dataRow,
                   IF isEmployee THEN Get(dataRow.employees) ELSE Get(dataRow.externals),
                   n, up)

---------------------------------------------------------------------------
(* part_000 *)

isInactiveEmployee(dataRow) ==
    IsSome(dataRow.employees)
    /\ aggregationStatus(Get(dataRow.employees)) = Some("Inaktiv")

isInactiveExternal(dataRow) ==
    IsSome(dataRow.externals) /\ Get(dataRow.externals).status # Some("active")

hasValidName(person) ==
    IsSome(person) /\ Truthy(Get(person).firstname) /\ Truthy(Get(person).lastname)

extractPerson(dataRow) ==
    IF IsSome(dataRow.employees) THEN dataRow.employees ELSE dataRow.externals

isValidRow(dataRow) ==
    LET person == extractPerson(dataRow)
    IN  ~isInactiveEmployee(dataRow) /\ ~isInactiveExternal(dataRow)
        /\ hasValidName(person)

\* the callback of .map()
mapCallbackB(dataRow, n, up) ==
    LET person == extractPerson(dataRow)
    IN  IF ~IsSome(person) THEN Results(FALSE, None)
        ELSE rowOf(dataRow, Get(person), n, up)

\* .filter((row) => row !== null), the last call of both chains
notNull(rows) ==
    LET kept == SelectSeq(rows, IsSome)
    IN  [i \in DOMAIN kept |-> Get(kept[i])]

---------------------------------------------------------------------------
(* The inputs *)

RateEntry(m, r) == Some([month |-> m, utilisationRate |-> r])
CostEntry(m, c) == Some([month |-> m, costs |-> c])
Null == None

Util(u12, ytd, last3) ==
    Some([utilisationRateLastTwelveMonths |-> u12,
          utilisationRateYearToDate |-> ytd,
          lastThreeMonthsIndividually |-> last3])

Earnings(arr) == Some([potentialEarningsByMonth |-> arr])

Person(fn, ln, st, agg, util, costs) ==
    Some([firstname |-> fn, lastname |-> ln, status |-> st, statusAggregation |-> agg,
          workforceUtilisation |-> util, costsByMonth |-> costs])

Aggregation(st) == Some([status |-> st])

Text089 == <<"0", ".", "8", "9">>
Text0893 == <<"0", ".", "8", "9", "3">>
Text075 == <<"0", ".", "7", "5">>
Text072 == <<"0", ".", "7", "2">>
Text05 == <<"0", ".", "5">>
TextAbc == <<"a", "b", "c">>
Text3500 == <<"3", "5", "0", "0">>
Text1250 == <<"1", "2", ".", "5", "0">>
TextNeg1980 == <<"-", "1", "9", "8", "0">>

\* the scenario of the specification: every field present
UtilFull ==
    Util(Some(Text089), Some(Text075), Some(<<RateEntry(Some("June"), Some(Text072))>>))

\* a missing rate, a rate that is no number, no month entries
UtilSparse == Util(None, Some(TextAbc), None)

\* a null entry before the entry of May
UtilNullEntry ==
    Util(Some(Text0893), None, Some(<<Null, RateEntry(Some("May"), Some(Text05))>>))

\* an empty rate, an entry without fields, an entry without a rate, two
\* entries of one month
UtilOdd ==
    Util(Some(<<>>), Some(<<"1">>),
         Some(<<RateEntry(None, None),
                RateEntry(Some("May"), None),
                RateEntry(Some("July"), Some(TextAbc)),
                RateEntry(Some("July"), Some(Text05))>>))

\* an entry for the month before each of ProjectionDates
CostsPrev ==
    Earnings(Some(<<CostEntry(Some("2026-10"), Some(Text3500)),
                    CostEntry(Some("2025-12"), Some(Text1250))>>))

\* costs that are no number, costs that are missing
CostsBad ==
    Earnings(Some(<<CostEntry(Some("2026-10"), Some(TextAbc)),
                    CostEntry(Some("2025-12"), None)>>))

CostsOtherMonth == Earnings(Some(<<CostEntry(Some("2026-09"), Some(Text3500))>>))

\* a null entry before the others
CostsNullEntry == Earnings(Some(<<Null, CostEntry(Some("2026-10"), Some(Text3500))>>))

\* an entry without fields, two entries of one month, a null entry after them
CostsOdd ==
    Earnings(Some(<<CostEntry(None, None),
                    CostEntry(Some("2026-10"), Some(TextNeg1980)),
                    CostEntry(Some("2026-10"), Some(Text3500)),
                    Null>>))

Aktiv == Aggregation(Some("Aktiv"))
Inaktiv == Aggregation(Some("Inaktiv"))
Jane == Some("Jane")
Doe == Some("Doe")
Max == Some("Max")
Ext == Some("Ext")

Employee(e) == [employees |-> e, externals |-> None]
External(x) == [employees |-> None, externals |-> x]
Both(e, x) == [employees |-> e, externals |-> x]

JaneDoe == Person(Jane, Doe, None, Aktiv, UtilFull, CostsPrev)
JaneInaktiv == Person(Jane, Doe, None, Inaktiv, UtilFull, CostsPrev)
MaxExt == Person(Max, Ext, Some("active"), None, UtilFull, CostsPrev)
MaxPending == Person(Max, Ext, Some("pending"), None, UtilFull, None)

Records ==
    { Employee(JaneDoe),
      Employee(JaneInaktiv),
      Employee(Person(None, Doe, None, Aktiv, UtilFull, CostsPrev)),
      Employee(Person(Jane, Some(""), None, None, None, None)),
      Employee(Person(Jane, Doe, None, Aggregation(None), UtilSparse, CostsBad)),
      Employee(Person(Jane, Doe, None, Aktiv, UtilNullEntry, CostsOtherMonth)),
      Employee(Person(Jane, Doe, None, Aktiv, UtilOdd, CostsOdd)),
      Employee(Person(Jane, Doe, None, Aktiv, UtilFull, CostsNullEntry)),
      Employee(Person(Jane, Doe, None, None, None, Earnings(None))),
      External(MaxExt),
      External(MaxPending),
      External(Person(Some(""), Ext, Some("active"), None, UtilSparse, None)),
      Both(JaneDoe, MaxPending),
      Both(JaneInaktiv, MaxExt),
      [employees |-> None, externals |-> None] }

\* the days on which the projection runs: the previous month is in the same
\* year, or in the year before
ProjectionDates ==
    {[year |-> 2026, month |-> 10, date |-> 2], [year |-> 2026, month |-> 0, date |-> 15]}

SeqsUpTo(S, n) == UNION {[1..k -> S] : k \in 0..n}

---------------------------------------------------------------------------
(* The projection: each call of a chain is one step.  The two chains share  *)
(* nothing but their input and run in any order.  Every call of new Date() *)
(* within one run reads the same month.  The rates of Records have at most *)
(* three decimals, so no product is a tie and tieUp plays no part here.    *)

Init ==
    /\ now \in ProjectionDates
    /\ tieUp = FALSE
    /\ sourceData \in SeqsUpTo(Records, MaxRecords)
    /\ pcA = "map" /\ mappedA = <<>> /\ tableDataA = <<>>
    /\ pcB = "filter" /\ filteredB = <<>> /\ mappedB = <<>> /\ tableDataB = <<>>
    /\ value = None /\ out = "" /\ pcF = "idle"

varsA == <<pcA, mappedA, tableDataA>>
varsB == <<pcB, filteredB, mappedB, tableDataB>>
varsIn == <<now, tieUp, sourceData, value, out, pcF>>

\* table-script.tsx: sourceData.map(...)
AMap ==
    /\ pcA = "map"
    /\ LET rs == [i \in DOMAIN sourceData |-> mapCallbackA(sourceData[i], now, tieUp)]
       IN  IF \E i \in DOMAIN rs : rs[i].threw
           THEN pcA' = "error" /\ UNCHANGED mappedA
           ELSE pcA' = "filter" /\ mappedA' = [i \in DOMAIN rs |-> rs[i].val]
    /\ UNCHANGED <<tableDataA, varsB, varsIn>>

\* table-script.tsx: .filter((row) => row !== null)
AFilter ==
    /\ pcA = "filter"
    /\ tableDataA' = notNull(mappedA)
    /\ pcA' = "done"
    /\ UNCHANGED <<mappedA, varsB, varsIn>>

\* part_000: sourceData.filter(isValidRow)
BFilter ==
    /\ pcB = "filter"
    /\ filteredB' = SelectSeq(sourceData, isValidRow)
    /\ pcB' = "map"
    /\ UNCHANGED <<mappedB, tableDataB, varsA, varsIn>>

\* part_000: .map(...)
BMap ==
    /\ pcB = "map"
    /\ LET rs == [i \in DOMAIN filteredB |-> mapCallbackB(filteredB[i], now, tieUp)]
       IN  IF \E i \in DOMAIN rs : rs[i].threw
           THEN pcB' = "error" /\ UNCHANGED mappedB
           ELSE pcB' = "filterNull" /\ mappedB' = [i \in DOMAIN rs |-> rs[i].val]
    /\ UNCHANGED <<filteredB, tableDataB, varsA, varsIn>>

\* part_000: .filter((row) => row !== null)
BFilterNull ==
    /\ pcB = "filterNull"
    /\ tableDataB' = notNull(mappedB)
    /\ pcB' = "done"
    /\ UNCHANGED <<filteredB, mappedB, varsA, varsIn>>

Next == AMap \/ AFilter \/ BFilter \/ BMap \/ BFilterNull

Spec == Init /\ [][Next]_vars

---------------------------------------------------------------------------
(* A single call of parseRate, on every string of at most MaxLen characters *)

Alphabet == {"0", "3", "5", "8", "9", ".", "-", "a"}

RateInputs == {None} \cup {Some(cs) : cs \in SeqsUpTo(Alphabet, MaxLen)}

IdleProjection ==
    /\ sourceData = <<>>
    /\ pcA = "idle" /\ mappedA = <<>> /\ tableDataA = <<>>
    /\ pcB = "idle" /\ filteredB = <<>> /\ mappedB = <<>> /\ tableDataB = <<>>

InitRate ==
    /\ value \in RateInputs
    /\ tieUp \in BOOLEAN
    /\ out = "" /\ pcF = "rate"
    /\ now = [year |-> 2026, month |-> 10, date |-> 2]
    /\ IdleProjection

CallParseRate ==
    /\ pcF = "rate"
    /\ out' = parseRate(value, tieUp)
    /\ pcF' = "rateDone"
    /\ UNCHANGED <<now, tieUp, sourceData, value, varsA, varsB>>

NextRate == CallParseRate

SpecRate == InitRate /\ [][NextRate]_vars

---------------------------------------------------------------------------
(* A single call of getPrevMonthKey, on every day of the years from 2024 *)

Years == 2024 .. (2024 + YearSpan)

Dates ==
    {dt \in [year : Years, month : 0..11, date : 1..31] :
        dt.date <= DaysInMonth(dt.year, dt.month)}

InitDate ==
    /\ now \in Dates
    /\ tieUp = FALSE
    /\ value = None /\ out = "" /\ pcF = "key"
    /\ IdleProjection

CallGetPrevMonthKey ==
    /\ pcF = "key"
    /\ out' = getPrevMonthKey(now)
    /\ pcF' = "keyDone"
    /\ UNCHANGED <<now, tieUp, sourceData, value, varsA, varsB>>

NextDate == CallGetPrevMonthKey

SpecDate == InitDate /\ [][NextDate]_vars

---------------------------------------------------------------------------
(* What the specification says of a record, stated without the code's own  *)
(* predicates.                                                             *)

Variant(r) ==
    IF IsSome(r.employees) THEN "employee"
    ELSE IF IsSome(r.externals) THEN "external" ELSE "none"

Resolved(r) == IF IsSome(r.employees) THEN Get(r.employees) ELSE Get(r.externals)

PresentName(o) == o # None /\ o # Some("")

Passes(r) ==
    /\ Variant(r) # "none"
    /\ Variant(r) = "employee" =>
          ~(/\ Resolved(r).statusAggregation # None
            /\ Get(Resolved(r).statusAggregation).status = Some("Inaktiv"))
    /\ Variant(r) = "external" => Resolved(r).status = Some("active")
    /\ PresentName(Resolved(r).firstname)
    /\ PresentName(Resolved(r).lastname)

\* The pairs <<record, row>>: the row the projection emitted for the record.
EmittedA ==
    IF pcA \in {"filter", "done"}
    THEN {<<sourceData[i], Get(mappedA[i])>> : i \in {j \in DOMAIN mappedA : IsSome(mappedA[j])}}
    ELSE {}

EmittedB ==
    IF pcB \in {"filterNull", "done"}
    THEN {<<filteredB[i], Get(mappedB[i])>> : i \in {j \in DOMAIN mappedB : IsSome(mappedB[j])}}
    ELSE {}

Emitted == EmittedA \cup EmittedB

\* The month before now, as the calendar has it (month is 0..11).
CalendarPrevKey(n) ==
    LET TwoDigits(m) == IF m < 10 THEN "0" \o ToString(m) ELSE ToString(m)
    IN  IF n.month + 1 > 1
        THEN ToString(n.year) \o "-" \o TwoDigits(n.month)
        ELSE ToString(n.year - 1) \o "-12"

\* The entries of arr that are objects whose month is k, in order.
EntriesOf(arr, k) ==
    SelectSeq(arr, LAMBDA e : e # None /\ Get(e).month = Some(k))

\* A string without any digit cannot be parsed as a number.
NotNumeric(cs) == \A i \in DOMAIN cs : cs[i] \notin Digits

\* The value a percentage field of the row is read from.
SourceRate(r, field) ==
    LET util == Resolved(r).workforceUtilisation
        months == IF util = None \/ Get(util).lastThreeMonthsIndividually = None
                  THEN <<>> ELSE Get(Get(util).lastThreeMonthsIndividually)
        name == CASE field = "may" -> "May" [] field = "june" -> "June"
                  [] field = "july" -> "July" [] OTHER -> ""
    IN  IF util = None THEN None
        ELSE IF field = "past12Months" THEN Get(util).utilisationRateLastTwelveMonths
        ELSE IF field = "y2d" THEN Get(util).utilisationRateYearToDate
        ELSE IF EntriesOf(months, name) = <<>> THEN None
        ELSE Get(EntriesOf(months, name)[1]).utilisationRate

RateFields == {"past12Months", "y2d", "may", "june", "july"}

\* The entries of an employee record for the month before now.
PrevMonthEntries(r, n) ==
    LET c == Resolved(r).costsByMonth
    IN  IF c = None \/ Get(c).potentialEarningsByMonth = None THEN <<>>
        ELSE EntriesOf(Get(Get(c).potentialEarningsByMonth), CalendarPrevKey(n))

---------------------------------------------------------------------------
(* Claims *)

\* C1: a row is emitted for a record only if the person is active and both
\* firstname and lastname are present and not empty, in both implementations.
C1_OnlyActiveNamed == \A p \in Emitted : Passes(p[1])

\* The rows of the records that pass, in order.
ExpectedRows ==
    LET passing == SelectSeq(sourceData, Passes)
    IN  [i \in DOMAIN passing |-> rowOf(passing[i], Resolved(passing[i]), now, tieUp).val]

\* C2: the output rows are, in order, the rows of the records that pass the
\* active and valid-name predicate: as many, the i-th the row of the i-th.
C2_OneToOneInOrder ==
    /\ pcA = "done" => [i \in DOMAIN tableDataA |-> Some(tableDataA[i])] = ExpectedRows
    /\ pcB = "done" => [i \in DOMAIN tableDataB |-> Some(tableDataB[i])] = ExpectedRows

\* C3: a percentage field whose source value is missing, has no entry of the
\* month, or is a string that is no number, is exactly "0%".
C3_DefaultRate ==
    \A p \in Emitted : \A f \in RateFields :
        LET v == SourceRate(p[1], f)
        IN  (v = None \/ NotNumeric(Get(v))) => p[2][f] = "0%"

\* A decimal numeral: digits with at most one point.
IsDecimalText(cs) ==
    /\ \A i \in DOMAIN cs : cs[i] \in Digits \cup {"."}
    /\ Cardinality({i \in DOMAIN cs : cs[i] = "."}) <= 1
    /\ \E i \in DOMAIN cs : cs[i] \in Digits

\* The numeral cs is Numerator(cs) / 10^Decimals(cs).
Decimals(cs) ==
    IF \E i \in DOMAIN cs : cs[i] = "."
    THEN Len(cs) - (CHOOSE i \in DOMAIN cs : cs[i] = ".")
    ELSE 0

Numerator(cs) == DigitsVal(SelectSeq(cs, LAMBDA c : c \in Digits))

\* t tenths of a percent are a nearest to the numeral cs times 100.
NearestTenths(cs, t) ==
    LET exact == Numerator(cs) * 1000
        unit == Pow10(Decimals(cs))
        diff == t * unit - exact
    IN  2 * (IF diff < 0 THEN -diff ELSE diff) <= unit

\* C4: a utilisation value that is a decimal numeral is returned as the value
\* times 100, rounded to one decimal, with exactly one digit after the point
\* and "%" after it: "0.893" gives "89.3%", "0.89" gives "89.0%".
C4_RateFormat ==
    (pcF = "rateDone" /\ value # None /\ IsDecimalText(Get(value))) =>
        LET cs == Get(value)
            low == (Numerator(cs) * 1000) \div Pow10(Decimals(cs))
        IN  /\ \E t \in {low, low + 1} :
                /\ NearestTenths(cs, t)
                /\ out = ToString(t \div 10) \o "." \o ToString(t % 10) \o "%"
            /\ cs = Text0893 => out = "89.3%"
            /\ cs = Text089 => out = "89.0%"

\* C4: parseRate has returned "89.3%" for "0.893".
C4_Witness == pcF = "rateDone" /\ value = Some(Text0893) /\ out = "89.3%"

\* Digits alone, without a leading zero.
IsPlainInteger(cs) ==
    /\ cs # <<>>
    /\ \A i \in DOMAIN cs : cs[i] \in Digits
    /\ (Len(cs) > 1 => cs[1] # "0")

C6_DefaultEarnings ==
    \A p \in Emitted :
        LET entries == PrevMonthEntries(p[1], now)
        IN  (/\ Variant(p[1]) = "employee"
             /\ \/ entries = <<>>
                \/ Get(entries[1]).costs = None
                \/ NotNumeric(Get(Get(entries[1]).costs)))
            => p[2].netEarningsPrevMonth = "0 €"

\* C7: the projection never ends in an error, whatever the records hold.
C7_NeverThrows == pcA # "error" /\ pcB # "error"

\* C8: getPrevMonthKey returns "YYYY-MM" of the calendar month before now,
\* the month with two digits: (Y, M-1) when M > 1, (Y-1, 12) when M = 1,
\* whatever the day.
C8_PrevMonthKey == pcF = "keyDone" => out = CalendarPrevKey(now)

\* C8: on 31 January 2024 the key is "2023-12".
C8_Witness ==
    /\ pcF = "keyDone"
    /\ now = [year |-> 2024, month |-> 0, date |-> 31]
    /\ out = "2023-12"

\* C9: the two implementations end alike, with the same rows.
C9_SameRows ==
    (pcA \in {"done", "error"} /\ pcB \in {"done", "error"}) =>
        (pcA = pcB /\ tableDataA = tableDataB)

\* The records, without the externals object of a record that has employees.
WithoutSecondVariant(data) ==
    [i \in DOMAIN data |->
        IF IsSome(data[i].employees)
        THEN [data[i] EXCEPT !.externals = None]
        ELSE data[i]]

\* The whole chain of table-script.tsx, and of part_000, on other records.
ChainA(data) ==
    LET rs == [i \in DOMAIN data |-> mapCallbackA(data[i], now, tieUp)]
    IN  IF \E i \in DOMAIN rs : rs[i].threw THEN Results(TRUE, <<>>)
        ELSE Results(FALSE, notNull([i \in DOMAIN rs |-> rs[i].val]))

ChainB(data) ==
    LET filtered == SelectSeq(data, isValidRow)
        rs == [i \in DOMAIN filtered |-> mapCallbackB(filtered[i], now, tieUp)]
    IN  IF \E i \in DOMAIN rs : rs[i].threw THEN Results(TRUE, <<>>)
        ELSE Results(FALSE, notNull([i \in DOMAIN rs |-> rs[i].val]))

\* C10: when a record carries both objects, the employees object alone
\* decides the outcome: the rows are those of the records with the externals
\* object of every such record removed.
C10_OneVariantRead ==
    /\ pcA \in {"done", "error"} =>
          ChainA(WithoutSecondVariant(sourceData)) = Results(pcA = "error", tableDataA)
    /\ pcB \in {"done", "error"} =>
          ChainB(WithoutSecondVariant(sourceData)) = Results(pcB = "error", tableDataB)

====
